---------------------------- MODULE Spec2Model ----------------------------
(***************************************************************************)
(* The NATS backend of restic (internal/backend/nats) and its chunked      *)
(* request/reply protocol (internal/backend/nats/protocol).                *)
(*                                                                         *)
(* A transaction is one SendMsgWithReply call of a caller c.  It has two   *)
(* endpoints: <<c, "cli">>, the goroutine of the caller inside the         *)
(* Backend, and <<c, "wrk">>, the responder that serves the command with   *)
(* the same protocol package (ChunkReadRequestMsgWithContext to read the   *)
(* request, ChunkSendReplyMsgWithContext to answer it).                    *)
(*                                                                         *)
(* The bus is the set `wire` of messages in flight.  A message sent to a   *)
(* chunk subject reaches the subscription of the transfer-id it names:     *)
(* the sender publishes on chunk.[acc.]send.<id> and the receiver          *)
(* subscribes to chunk.[acc.]recieve.<id>; the account mapping of the bus  *)
(* joins the two, and the model routes by transfer-id.                     *)
(*                                                                         *)
(* Payload bytes name their own offset (Payload(n) = <<1, ..., n>>): the   *)
(* engine never inspects a byte, so any loss, duplication or reordering    *)
(* of bytes shows in the reassembled sequence.                             *)
(***************************************************************************)
EXTENDS Integers, Sequences, FiniteSets, TLC

(* ------------------------------ bounds --------------------------------- *)

\* Callers that may invoke the Backend concurrently.
NumCallers == 2
\* Largest cfg.Connections tried (tokens of the semaphore).
MaxConnections == 2
\* Longest payload (encoded request or reply), in bytes.
MaxLen == 5
\* Largest maxchunksize tried.
MaxChunkSize == 2
\* Draws of the id generator that returned a colliding string and are still
\* held by a message.
MaxCollided == 1
\* Longest listing a responder returns.
MaxEntries == 2
\* Directories of the layout (be.Paths()).
NumPaths == 2

(* --------------------------- program constants ------------------------- *)

NatsOpenCmd == 0
NatsStatCmd == 1
NatsMkdirCmd == 2
NatsSaveCmd == 3
NatsListCmd == 4
NatsLoadCmd == 5
NatsRemoveCmd == 6
\* A NatsCommand value that is none of the seven constants.
NatsUnknownCmd == 7
\* Capacity of the chunk channel: make(chan *nats.Msg, 10).
ChunkChanCap == 10

\* Header value of a header that is absent (Header.Get returns "").
NoHdr == -1
\* Header value of X-RNS-CHUNKS that strconv.Atoi rejects.
BadHdr == -2

Callers == 1..NumCallers
Sides == {"cli", "wrk"}
Endpoints == Callers \X Sides
Cli(c) == <<c, "cli">>
Wrk(c) == <<c, "wrk">>
Peer(e) == <<e[1], IF e[2] = "cli" THEN "wrk" ELSE "cli">>

NatsCommands == NatsOpenCmd..NatsRemoveCmd

OperationName(op) ==
    CASE op = NatsOpenCmd -> "open"
      [] op = NatsStatCmd -> "stat"
      [] op = NatsMkdirCmd -> "mkdir"
      [] op = NatsSaveCmd -> "save"
      [] op = NatsListCmd -> "list"
      [] op = NatsLoadCmd -> "load"
      [] op = NatsRemoveCmd -> "remove"
      [] OTHER -> ""

ReqSchema(op) ==
    CASE op = NatsOpenCmd -> "OpenOp"
      [] op = NatsStatCmd -> "StatOp"
      [] op = NatsMkdirCmd -> "MkdirOp"
      [] op = NatsSaveCmd -> "SaveOp"
      [] op = NatsListCmd -> "ListOp"
      [] op = NatsLoadCmd -> "LoadOp"
      [] op = NatsRemoveCmd -> "RemoveOp"
      [] OTHER -> "none"

RepSchema(op) ==
    CASE op = NatsOpenCmd -> "*OpenResult"
      [] op = NatsStatCmd -> "*StatResult"
      [] op = NatsMkdirCmd -> "*MkdirResult"
      [] op = NatsSaveCmd -> "*SaveResult"
      [] op = NatsListCmd -> "*ListResult"
      [] op = NatsLoadCmd -> "*LoadResult"
      [] op = NatsRemoveCmd -> "*RemoveResult"
      [] OTHER -> "none"

Min(a, b) == IF a < b THEN a ELSE b

Payload(n) == [k \in 1..n |-> k]

(* ------------------------------ messages ------------------------------- *)

\* A message held by an endpoint: headers, data and whether it has a Reply.
EmptyMsg == [id |-> 0, chunks |-> NoHdr, op |-> "", data |-> <<>>, reply |-> FALSE]

\* A message on the bus.
WireMsg(to, subj, reply, id, chunks, seq, csubj, op, data) ==
    [to |-> to, subj |-> subj, reply |-> reply, id |-> id, chunks |-> chunks,
     seq |-> seq, csubj |-> csubj, op |-> op, data |-> data]

\* What an endpoint records of a message it put on the bus, and how.
LogEntry(mode, m) ==
    [mode |-> mode, subj |-> m.subj, id |-> m.id, chunks |-> m.chunks,
     seq |-> m.seq, csubj |-> m.csubj, op |-> m.op, data |-> m.data]

(* ------------------------- the chunking arithmetic --------------------- *)

\* A sender slip: the page count rounded up.
PagesRoundedUp(D, M) == (Len(D) + M - 1) \div M

\* A sender slip: the slice of chunk i starts one page early.
ChunkDataPageEarly(D, M, i) == SubSeq(D, M * (i - 1) + 1, Min(M * i, Len(D)))

\* pages := datasize / maxchunksize
Pages(D, M) == Len(D) \div M

\* initialchunk.Data = msg.Data[:maxchunksize]
InitialData(D, M) == SubSeq(D, 1, M)

\* chunkmsg.Data = msg.Data[start:end], start = M*i, end = min(M*(i+1), len)
ChunkData(D, M, i) == SubSeq(D, M * i + 1, Min(M * (i + 1), Len(D)))

\* A header slip: the copy carries an id of its own.
copyHeaderOwnId(m) == [id |-> m.id + 1, chunks |-> m.chunks, op |-> m.op]

\* copyHeader: X-RNS-MSGID, X-RNS-CHUNKS and X-RNS-OP, nothing else.
copyHeader(m) == [id |-> m.id, chunks |-> m.chunks, op |-> m.op]

(* ------------------------------- state --------------------------------- *)

VARIABLES
    cfg,        \* the run: callers, cfg.Connections, maxchunksize, payload cap
    call,       \* call[c]: the facade method c is in and what it passes down
    ctxDone,    \* ctxDone[e]: the context handed to endpoint e's caller is done
    ep,         \* ep[e]: the protocol state of endpoint e
    wire,       \* messages in flight on the bus
    sem,        \* tokens of be.sem that are taken
    holds,      \* holds[c]: tokens caller c has taken and not released
    ret,        \* ret[c]: what the last SendMsgWithReply of c returned
    fac         \* the Backend method in progress, seen from above the bus

vars == <<cfg, call, ctxDone, ep, wire, sem, holds, ret, fac>>

\* nats.go holds two revisions of the Backend: the first sends its commands
\* through SendMsgWithReply, the second through the rns client library.
Versions == {1, 2}

NoOut == [err |-> "pending", ok |-> FALSE]

NoHandle == [type |-> "none", name |-> 0]

\* No Backend method is in progress.
IdleFacade(v) ==
    [version |-> v, method |-> "none", pc |-> "idle", h |-> NoHandle,
     cmds |-> <<>>, fns |-> <<>>, res |-> <<>>, k |-> 0, t |-> 0,
     out |-> NoOut]

NoCall == [facade |-> "none", op |-> NatsUnknownCmd, sendT |-> "none",
           recvT |-> "none", ctx |-> "background", len |-> 0]

NoRet == [err |-> "pending", data |-> <<>>]

InitEp(side) ==
    [pc |-> IF side = "cli" THEN "idle" ELSE "listen",
     out |-> EmptyMsg, i |-> 0, pages |-> 0, acc |-> EmptyMsg,
     sub |-> FALSE, closed |-> FALSE, chan |-> <<>>, err |-> "",
     panic |-> FALSE, sent |-> <<>>, resp |-> <<>>, got |-> <<>>, subs |-> 0,
     starved |-> FALSE, msgid |-> 0, seed |-> 0]

\* Payload cap of a run: one caller moves payloads of every length up to
\* MaxLen; concurrent callers move short payloads only.
LenCap(k) == IF k = 1 THEN MaxLen ELSE 0

Init ==
    /\ \E k \in 1..NumCallers, n \in 1..MaxConnections, M \in 1..MaxChunkSize :
          \* payloads of length 0 are short for every maxchunksize
          /\ LenCap(k) = 0 => M = 1
          \* tokens beyond the number of callers are never taken
          /\ n <= k
          /\ cfg = [callers |-> 1..k, connections |-> n, maxchunksize |-> M,
                 lencap |-> LenCap(k)]
    /\ call = [c \in Callers |-> NoCall]
    /\ ctxDone = [e \in Endpoints |-> FALSE]
    /\ ep = [e \in Endpoints |-> InitEp(e[2])]
    /\ wire = {}
    /\ sem = 0
    /\ holds = [c \in Callers |-> 0]
    /\ ret = [c \in Callers |-> NoRet]
    /\ fac = IdleFacade(1)

\* The context that governs endpoint e's bus interactions is done.  The client
\* side is governed by the context SendMsgWithReply was given: the caller's,
\* or context.Background(), which is never done.
CtxDone(e) ==
    IF e[2] = "cli"
    THEN call[e[1]].ctx = "caller" /\ ctxDone[e]
    ELSE ctxDone[e]

(* ------------------------- the sender: first message ------------------- *)

\* A protocol slip: the id check is left out.
HasMsgIdUnchecked(m) == TRUE

\* len(msg.Header.Get(msgHeaderID)) == 0 is "MessageID Not Set".
HasMsgId(m) == m.id # 0

\* if len(msg.Data) < maxchunksize: the message is sent as it is.
IsShort(D, M) == Len(D) < M

\* conn.RequestMsgWithContext looks at the context before it sends: with a
\* context that is done it returns the error and nothing reaches the bus.
Requested(e, r, step) ==
    IF CtxDone(e)
    THEN [r |-> [r EXCEPT !.pc = "failed", !.err = "transport"], emit |-> {}]
    ELSE step

\* A sender slip: the request returns at once, with a reply the reader never
\* sent.
RepliesUnawaited(e) ==
    {m \in wire : m.to = e /\ m.subj = "inbox"}
       \cup {[to |-> e, subj |-> "inbox", reply |-> FALSE, id |-> ep[e].out.id,
              chunks |-> ep[e].out.chunks, seq |-> NoHdr, csubj |-> 1,
              op |-> ep[e].out.op, data |-> <<>>]}

\* Replies waiting on the bus for the request endpoint e has pending: what
\* conn.RequestMsgWithContext can return.
Replies(e) == {m \in wire : m.to = e /\ m.subj = "inbox"}

\* ChunkSendRequestMsgWithContext up to its first request.  A step is
\* [r |-> the endpoint after it, emit |-> the messages it put on the bus].
ChunkSendRequestBegin(e, r, msg) ==
    LET M == cfg.maxchunksize
        short == WireMsg(Peer(e), "cmd", TRUE, msg.id, msg.chunks, NoHdr, 0,
                         msg.op, msg.data)
        initial == WireMsg(Peer(e), "cmd", TRUE, msg.id, Pages(msg.data, M),
                           NoHdr, 0, msg.op, InitialData(msg.data, M))
    IN  IF ~HasMsgId(msg)
        THEN [r |-> [r EXCEPT !.pc = "failed", !.err = "msgid", !.out = msg],
              emit |-> {}]
        ELSE IF IsShort(msg.data, M)
        THEN Requested(e, [r EXCEPT !.out = msg],
               [r |-> [r EXCEPT !.pc = "awaitReply", !.out = msg, !.pages = 0,
                                !.sent = <<LogEntry("request", short)>>],
                emit |-> {short}])
        ELSE Requested(e, [r EXCEPT !.out = msg],
               [r |-> [r EXCEPT !.pc = "awaitControl", !.out = msg,
                                !.pages = Pages(msg.data, M),
                                !.sent = <<LogEntry("request", initial)>>],
                emit |-> {initial}])

\* ChunkSendReplyMsgWithContext up to its first message: a short reply is a
\* response to replyto (r.acc), the initial chunk of a long one a request.
ChunkSendReplyBegin(e, r, msg, sendOK) ==
    LET M == cfg.maxchunksize
        short == WireMsg(Peer(e), "inbox", FALSE, msg.id, msg.chunks, NoHdr, 0,
                         msg.op, msg.data)
        initial == WireMsg(Peer(e), "inbox", TRUE, msg.id, Pages(msg.data, M),
                           NoHdr, 0, msg.op, InitialData(msg.data, M))
    IN  IF ~HasMsgId(msg)
        THEN [r |-> [r EXCEPT !.pc = "failed", !.err = "msgid", !.out = msg],
              emit |-> {}]
        ELSE IF IsShort(msg.data, M)
        THEN IF r.acc.reply /\ sendOK
             THEN [r |-> [r EXCEPT !.pc = "done", !.out = msg, !.pages = 0,
                                    !.sent = <<LogEntry("respond", short)>>],
                   emit |-> {short}]
             ELSE [r |-> [r EXCEPT !.pc = "failed", !.err = "transport",
                                    !.out = msg],
                   emit |-> {}]
        ELSE Requested(e, [r EXCEPT !.out = msg],
               [r |-> [r EXCEPT !.pc = "awaitControl", !.out = msg,
                                !.pages = Pages(msg.data, M),
                                !.sent = <<LogEntry("request", initial)>>],
                emit |-> {initial}])

(* ------------------------- the sender: follow-on chunks ---------------- *)

\* A sender slip: the chunks are numbered from 0.
ChunkMsgSeqFromZero(e, r, i, reply) ==
    LET h == copyHeader(r.out)
    IN  WireMsg(Peer(e), "chunk", reply, h.id, h.chunks, i - 1, 0, h.op,
                ChunkData(r.out.data, cfg.maxchunksize, i))

\* chunkmsg of the loop: copyHeader(msg) plus X-RNS-CHUNKS-SEQ = i.
ChunkMsg(e, r, i, reply) ==
    LET h == copyHeader(r.out)
    IN  WireMsg(Peer(e), "chunk", reply, h.id, h.chunks, i, 0, h.op,
                ChunkData(r.out.data, cfg.maxchunksize, i))

\* Request path, loop body for page i: every chunk is a request; the reply to
\* the last one is the logical reply.
ChunkSendRequestChunk(e, r, i) ==
    LET m == ChunkMsg(e, r, i, TRUE)
    IN  Requested(e, [r EXCEPT !.i = i],
          [r |-> [r EXCEPT !.i = i,
                           !.pc = IF i = r.pages THEN "awaitReply" ELSE "awaitAck",
                           !.sent = Append(@, LogEntry("request", m))],
           emit |-> {m}])

\* A sender slip: the last chunk of a reply is a request as well.
ReplyChunkAlwaysRequested(i, pages) == i <= pages

\* Reply path: whether chunk i of `pages` is sent with RequestMsgWithContext
\* (if i < pages) rather than PublishMsg.
ReplyChunkRequested(i, pages) == i < pages

\* Reply path, loop body for page i.
ChunkSendReplyChunk(e, r, i, sendOK) ==
    IF ReplyChunkRequested(i, r.pages)
    THEN LET m == ChunkMsg(e, r, i, TRUE)
         IN  Requested(e, [r EXCEPT !.i = i],
               [r |-> [r EXCEPT !.i = i, !.pc = "awaitAck",
                                !.sent = Append(@, LogEntry("request", m))],
                emit |-> {m}])
    ELSE LET m == ChunkMsg(e, r, i, FALSE)
         IN  IF sendOK
             THEN [r |-> [r EXCEPT !.i = i,
                                   !.pc = IF i = r.pages THEN "done" ELSE "awaitAck",
                                   !.sent = Append(@, LogEntry("publish", m))],
                   emit |-> {m}]
             ELSE [r |-> [r EXCEPT !.i = i, !.pc = "failed", !.err = "transport"],
                   emit |-> {}]

\* The loop body of the sender that endpoint e runs.
SendChunk(e, r, i, sendOK) ==
    IF e[2] = "cli" THEN ChunkSendRequestChunk(e, r, i)
                    ELSE ChunkSendReplyChunk(e, r, i, sendOK)

(* ------------------------------ the reader ----------------------------- *)

\* Where an endpoint continues after ChunkReadRequestMsgWithContext returned
\* a message: the client decodes it, the responder serves it.
AfterRead(e) == IF e[2] = "cli" THEN "Decode" ELSE "Handle"

\* A reader slip: every message is reassembled, with the header or without.
IsChunkedAlways(m) == TRUE

\* Whether ChunkReadRequestMsgWithContext reassembles: chunked != "".
IsChunked(m) == m.chunks # NoHdr

\* A reader slip: the control reply goes out before the subscription is
\* made, and so also when the subscription fails.
ChunkReadBeginControlFirst(e, r, m, subOK, ctlOK) ==
    LET msg == [id |-> m.id, chunks |-> m.chunks, op |-> m.op, data |-> m.data,
                reply |-> m.reply]
        h == copyHeader(m)
        ctl == WireMsg(Peer(e), "inbox", FALSE, h.id, h.chunks, NoHdr, 1, h.op, <<>>)
        sentCtl == m.reply /\ ctlOK
        r1 == [r EXCEPT !.acc = msg,
                        !.resp = IF sentCtl THEN Append(@, LogEntry("respond", ctl))
                                 ELSE @]
    IN  IF ~HasMsgId(m)
        THEN [r |-> [r EXCEPT !.pc = "failed", !.err = "msgid", !.acc = msg],
              emit |-> {}]
        ELSE IF ~IsChunked(m)
        THEN [r |-> [r EXCEPT !.pc = AfterRead(e), !.acc = msg], emit |-> {}]
        ELSE IF m.chunks = BadHdr
        THEN [r |-> [r EXCEPT !.pc = "failed", !.err = "atoi", !.acc = msg],
              emit |-> {}]
        ELSE IF ~subOK
        THEN [r |-> [r1 EXCEPT !.pc = "failed", !.err = "subscribe"],
              emit |-> IF sentCtl THEN {ctl} ELSE {}]
        ELSE [r |-> [r1 EXCEPT !.pages = m.chunks, !.i = 1,
                                !.sub = TRUE, !.subs = @ + 1, !.chan = <<>>,
                                !.closed = (m.chunks < 1),
                                !.pc = IF m.chunks < 1 THEN "unsub" ELSE "readChunk"],
              emit |-> IF sentCtl THEN {ctl} ELSE {}]

\* ChunkReadRequestMsgWithContext from its entry to the first chunk wait, on
\* message m.  subOK: QueueSubscribeSyncWithChan succeeds; ctlOK: the control
\* reply gets onto the bus (msg.RespondMsg's error is dropped).
ChunkReadBegin(e, r, m, subOK, ctlOK) ==
    LET msg == [id |-> m.id, chunks |-> m.chunks, op |-> m.op, data |-> m.data,
                reply |-> m.reply]
        h == copyHeader(m)
        ctl == WireMsg(Peer(e), "inbox", FALSE, h.id, h.chunks, NoHdr, 1, h.op, <<>>)
        sentCtl == m.reply /\ ctlOK
    IN  IF ~HasMsgId(m)
        THEN [r |-> [r EXCEPT !.pc = "failed", !.err = "msgid", !.acc = msg],
              emit |-> {}]
        ELSE IF ~IsChunked(m)
        THEN [r |-> [r EXCEPT !.pc = AfterRead(e), !.acc = msg], emit |-> {}]
        ELSE IF m.chunks = BadHdr
        THEN [r |-> [r EXCEPT !.pc = "failed", !.err = "atoi", !.acc = msg],
              emit |-> {}]
        ELSE IF ~subOK
        THEN [r |-> [r EXCEPT !.pc = "failed", !.err = "subscribe", !.acc = msg],
              emit |-> {}]
        ELSE [r |-> [r EXCEPT !.acc = msg, !.pages = m.chunks, !.i = 1,
                               !.sub = TRUE, !.subs = @ + 1,
                               !.chan = <<>>,
                               \* no page to wait for: the deferred close runs
                               !.closed = (m.chunks < 1),
                               !.pc = IF m.chunks < 1 THEN "unsub" ELSE "readChunk",
                               !.resp = IF sentCtl
                                        THEN Append(@, LogEntry("respond", ctl))
                                        ELSE @],
              emit |-> IF sentCtl THEN {ctl} ELSE {}]

\* A reader slip: the last chunk is acknowledged like the others.
ChunkAckedEvery(i, pages) == i <= pages

\* Whether the reader acknowledges the i-th chunk it receives (if i < pages).
ChunkAcked(i, pages) == i < pages

\* A reader slip: the subscription is removed on the successful return only.
UnsubscribeOnSuccess(err) == err = ""

\* Whether the deferred sub.Unsubscribe() is in force when the reader leaves
\* with error err ("" when it leaves with the message).
UnsubscribeOnExit(err) == TRUE

\* A reader slip: the loop has no upper bound.
LoopNeverEnds(i, pages) == TRUE

\* for i := 1; i <= pages; i++: whether the reader waits for an i-th chunk.
LoopGoesOn(i, pages) == i <= pages

\* The loop body of the reader on the chunk at the head of chunkchan.
ChunkReadChunk(e, r, ackOK) ==
    LET chunk == Head(r.chan)
        h == copyHeader(chunk)
        ack == WireMsg(Peer(e), "inbox", FALSE, h.id, h.chunks, NoHdr, 0, h.op, <<>>)
        r1 == [r EXCEPT !.chan = Tail(@),
                        !.acc.data = @ \o chunk.data]
    IN  IF ChunkAcked(r.i, r.pages)
        THEN IF chunk.reply /\ ackOK
             THEN [r |-> [r1 EXCEPT !.i = @ + 1,
                                    !.resp = Append(@, LogEntry("respond", ack))],
                   emit |-> {ack}]
             ELSE [r |-> [r1 EXCEPT !.pc = "unsub", !.closed = TRUE,
                                    !.err = "ackfail"],
                   emit |-> {}]
        ELSE [r |-> [r1 EXCEPT !.acc.reply = chunk.reply,
                               !.i = @ + 1,
                               !.pc = IF LoopGoesOn(r.i + 1, r.pages)
                                      THEN "readChunk" ELSE "unsub",
                               !.closed = ~LoopGoesOn(r.i + 1, r.pages)],
              emit |-> {}]

\* case chunk := <-chunkchan
ReadChunk(e) ==
    /\ ep[e].pc = "readChunk"
    /\ ep[e].chan # <<>>
    /\ \E ackOK \in BOOLEAN :
          LET s == ChunkReadChunk(e, ep[e], ackOK)
          IN  /\ ep' = [ep EXCEPT ![e] = s.r]
              /\ wire' = wire \cup s.emit
    /\ UNCHANGED <<cfg, fac, call, ctxDone, sem, holds, ret>>

\* case <-ctx.Done(): return nil, context.DeadlineExceeded
ReadCtxDone(e) ==
    /\ ep[e].pc = "readChunk"
    /\ CtxDone(e)
    /\ ep' = [ep EXCEPT ![e].pc = "unsub", ![e].closed = TRUE,
                        ![e].err = "deadline"]
    /\ UNCHANGED <<cfg, fac, call, ctxDone, wire, sem, holds, ret>>

\* The second deferred call, sub.Unsubscribe(), and the return.
ReadUnsubscribe(e) ==
    /\ ep[e].pc = "unsub"
    /\ ep' = [ep EXCEPT ![e].sub = IF UnsubscribeOnExit(ep[e].err) THEN FALSE ELSE @,
                        ![e].pc = IF ep[e].err = "" THEN AfterRead(e) ELSE "failed"]
    /\ UNCHANGED <<cfg, fac, call, ctxDone, wire, sem, holds, ret>>

(* --------------------------- the sender's waits ------------------------ *)

\* A sender slip: the control reply is not looked at.
SendGotControlUnchecked(e) ==
    /\ ep[e].pc = "awaitControl"
    /\ \E m \in Replies(e), sendOK \in BOOLEAN :
          LET r == [ep[e] EXCEPT !.got = Append(@, LogEntry("reply", m))]
              s == IF r.pages < 1
                   THEN [r |-> [r EXCEPT !.pc = "failed", !.err = "Failed"],
                         emit |-> {}]
                   ELSE SendChunk(e, r, 1, sendOK)
          IN  /\ ep' = [ep EXCEPT ![e] = s.r]
              /\ wire' = (wire \ {m}) \cup s.emit
    /\ UNCHANGED <<cfg, fac, call, ctxDone, sem, holds, ret>>

\* The request for the initial chunk returns the control reply: take the
\* transfer-id from X-RNS-CHUNK-SUBJECT and send chunk 1.
SendGotControl(e) ==
    /\ ep[e].pc = "awaitControl"
    /\ \E m \in Replies(e), sendOK \in BOOLEAN :
          LET r == [ep[e] EXCEPT !.got = Append(@, LogEntry("reply", m))]
              s == IF m.csubj = 0
                   THEN [r |-> [r EXCEPT !.pc = "failed", !.err = "nochunkid"],
                         emit |-> {}]
                   ELSE IF r.pages < 1
                   \* the loop has no page: return errors.New("Failed")
                   THEN [r |-> [r EXCEPT !.pc = "failed", !.err = "Failed"],
                         emit |-> {}]
                   ELSE SendChunk(e, r, 1, sendOK)
          IN  /\ ep' = [ep EXCEPT ![e] = s.r]
              /\ wire' = (wire \ {m}) \cup s.emit
    /\ UNCHANGED <<cfg, fac, call, ctxDone, sem, holds, ret>>

\* The request for chunk i < pages returns the ack: send chunk i + 1.
SendGotAck(e) ==
    /\ ep[e].pc = "awaitAck"
    /\ \E m \in Replies(e), sendOK \in BOOLEAN :
          LET r == [ep[e] EXCEPT !.got = Append(@, LogEntry("reply", m))]
              s == IF r.i >= r.pages
                   THEN [r |-> [r EXCEPT !.pc = "done"], emit |-> {}]
                   ELSE SendChunk(e, r, r.i + 1, sendOK)
          IN  /\ ep' = [ep EXCEPT ![e] = s.r]
              /\ wire' = (wire \ {m}) \cup s.emit
    /\ UNCHANGED <<cfg, fac, call, ctxDone, sem, holds, ret>>

\* A sender slip: the request that failed is sent again.
SendFailsRetried(e) ==
    /\ ep[e].pc \in {"awaitReply", "awaitControl", "awaitAck"}
    /\ ep' = [ep EXCEPT ![e].sent = Append(@, @[Len(@)])]
    /\ UNCHANGED <<cfg, fac, call, ctxDone, wire, sem, holds, ret>>

\* conn.RequestMsgWithContext returns an error: the context is done, no
\* responder, the connection is gone.  Nothing is retried.
SendFails(e) ==
    /\ ep[e].pc \in {"awaitReply", "awaitControl", "awaitAck"}
    /\ ep' = [ep EXCEPT ![e].pc = "failed", ![e].err = "transport"]
    /\ UNCHANGED <<cfg, fac, call, ctxDone, wire, sem, holds, ret>>

\* Request path only: the short request, or the request for the last chunk,
\* returns the logical reply, which goes through
\* ChunkReadRequestMsgWithContext.
SendGotReply(c) ==
    LET e == Cli(c) IN
    /\ ep[e].pc = "awaitReply"
    /\ \E m \in Replies(e), subOK \in BOOLEAN, ctlOK \in BOOLEAN :
          LET r == [ep[e] EXCEPT !.got = Append(@, LogEntry("reply", m))]
              s == ChunkReadBegin(e, r, m, subOK, ctlOK)
          IN  /\ ep' = [ep EXCEPT ![e] = s.r]
              /\ wire' = (wire \ {m}) \cup s.emit
    /\ UNCHANGED <<cfg, fac, call, ctxDone, sem, holds, ret>>

(* -------------------------------- the bus ------------------------------ *)

\* The bus hands a chunk to the subscription of its transfer: into chunkchan.
\* A send on the closed channel panics in the client library.
Deliver(e) ==
    /\ ep[e].sub
    /\ \E m \in wire :
          /\ m.to = e /\ m.subj = "chunk"
          /\ ep[e].closed \/ Len(ep[e].chan) < ChunkChanCap
          /\ wire' = wire \ {m}
          /\ ep' = IF ep[e].closed
                   THEN [ep EXCEPT ![e].panic = TRUE]
                   ELSE [ep EXCEPT ![e].chan = Append(@, m)]
    /\ UNCHANGED <<cfg, fac, call, ctxDone, sem, holds, ret>>

\* A chunk for a transfer nobody is subscribed to is dropped.
Drop(e) ==
    /\ ~ep[e].sub
    /\ \E m \in wire :
          /\ m.to = e /\ m.subj = "chunk"
          /\ wire' = wire \ {m}
    /\ UNCHANGED <<cfg, fac, call, ctxDone, ep, sem, holds, ret>>

\* The context handed to e's side ends (cancelled, or its deadline passes)
\* where that is a case of its own: while the caller is blocked in GetToken,
\* and while the reader waits for a chunk.  A context that ends while a
\* request is pending makes the request fail, which is SendFails.
Cancel(e) ==
    /\ ~ctxDone[e]
    /\ \/ ep[e].pc = "readChunk"
       \/ ep[e].pc = "GetToken" /\ sem >= cfg.connections
    /\ ctxDone' = [ctxDone EXCEPT ![e] = TRUE]
    \* remember a caller whose context ends while it is blocked in GetToken
    /\ ep' = [ep EXCEPT ![e].starved = @ \/ ep[e].pc = "GetToken"]
    /\ UNCHANGED <<cfg, fac, call, wire, sem, holds, ret>>

(* ------------------------- the facade and dispatch --------------------- *)

FacadeName(op) ==
    CASE op = NatsOpenCmd -> "Open"
      [] op = NatsStatCmd -> "Stat"
      [] op = NatsMkdirCmd -> "Mkdir"
      [] op = NatsSaveCmd -> "Save"
      [] op = NatsListCmd -> "List"
      [] op = NatsLoadCmd -> "Load"
      [] op = NatsRemoveCmd -> "Remove"
      [] OTHER -> "none"

\* The context a facade method hands to SendMsgWithReply: Open hands on its
\* caller's, every other method context.Background().
FacadeCtx(op) == IF op = NatsOpenCmd THEN "caller" ELSE "background"

\* A facade method's call of SendMsgWithReply: the command with its own
\* request and reply types.
FacadeCalls ==
    {[facade |-> FacadeName(op), op |-> op, sendT |-> ReqSchema(op),
      recvT |-> RepSchema(op), ctx |-> FacadeCtx(op)] : op \in NatsCommands}

\* SendMsgWithReply is exported: a call with any command value, any request
\* and reply value, and the caller's own context.
DirectCalls ==
    UNION {{[facade |-> "SendMsgWithReply", op |-> op, sendT |-> st, recvT |-> rt,
             ctx |-> "caller"] :
               st \in {ReqSchema(op), "other"}, rt \in {RepSchema(op), "other"}} :
           op \in NatsOpenCmd..NatsUnknownCmd}

\* The calls a run makes: with concurrent callers, the facade's only.
CallKinds == IF Cardinality(cfg.callers) = 1 THEN FacadeCalls \cup DirectCalls
             ELSE {k \in FacadeCalls : k.op = NatsOpenCmd}

\* Lengths of the encoded request of command op: only SaveOp carries data.
ReqLens(op) == IF op = NatsSaveCmd THEN 0..cfg.lencap ELSE {0}

\* Lengths of the encoded reply to command op: LoadResult carries data,
\* ListResult a list of any length.
RepLens(op) == IF op \in {NatsLoadCmd, NatsListCmd} THEN 0..cfg.lencap ELSE {0}

\* A caller enters a method of the Backend, which builds the request value.
Call(c) ==
    /\ c \in cfg.callers
    /\ ep[Cli(c)].pc = "idle"
    /\ \E k \in CallKinds : \E n \in ReqLens(k.op) :
          call' = [call EXCEPT ![c] =
                      [facade |-> k.facade, op |-> k.op, sendT |-> k.sendT,
                       recvT |-> k.recvT, ctx |-> k.ctx, len |-> n]]
    /\ ep' = [ep EXCEPT ![Cli(c)] = [InitEp("cli") EXCEPT !.pc = "GetToken"],
                        ![Wrk(c)] = InitEp("wrk")]
    /\ ctxDone' = [ctxDone EXCEPT ![Cli(c)] = FALSE, ![Wrk(c)] = FALSE]
    /\ ret' = [ret EXCEPT ![c] = NoRet]
    /\ UNCHANGED <<cfg, fac, wire, sem, holds>>

\* backend.Semaphore: GetToken returns once fewer than Connections tokens
\* are taken.
TokenFree == sem < cfg.connections

\* A dispatch slip: SendMsgWithReply goes on without taking a token.
GetTokenSkipped(c) ==
    /\ ep[Cli(c)].pc = "GetToken"
    /\ ep' = [ep EXCEPT ![Cli(c)].pc = "Dispatch"]
    /\ UNCHANGED <<cfg, fac, call, ctxDone, wire, sem, holds, ret>>

\* A dispatch variant: GetToken gives up once the caller's context is done.
GetTokenCancellable(c) ==
    /\ ep[Cli(c)].pc = "GetToken"
    /\ \/ /\ sem < cfg.connections
          /\ sem' = sem + 1
          /\ holds' = [holds EXCEPT ![c] = @ + 1]
          /\ ep' = [ep EXCEPT ![Cli(c)].pc = "Dispatch"]
       \/ /\ ctxDone[Cli(c)]
          /\ ep' = [ep EXCEPT ![Cli(c)].pc = "failed", ![Cli(c)].err = "ctx"]
          /\ UNCHANGED <<sem, holds>>
    /\ UNCHANGED <<cfg, fac, call, ctxDone, wire, ret>>

\* be.sem.GetToken(): blocks, without a context, until a token is free.
GetToken(c) ==
    /\ ep[Cli(c)].pc = "GetToken"
    /\ TokenFree
    /\ sem' = sem + 1
    /\ holds' = [holds EXCEPT ![c] = @ + 1]
    /\ ep' = [ep EXCEPT ![Cli(c)].pc = "Dispatch"]
    /\ UNCHANGED <<cfg, fac, call, ctxDone, wire, ret>>

\* A dispatch slip: the switch tests the request value only.
SchemaOKRequestOnly(k) ==
    k.op \in NatsCommands => k.sendT = ReqSchema(k.op)

\* The type switch on op: a command of the seven needs its own request type
\* and a pointer to its own reply type; any other value has no case.
SchemaOK(k) ==
    k.op \in NatsCommands => (k.sendT = ReqSchema(k.op) /\ k.recvT = RepSchema(k.op))

\* Identifiers are strings of the package's generator `src`.  The model
\* names the string a draw returns after the caller that draws: c names the
\* string of c's current draw, 0 no string.  A draw that ran into the draw of
\* another caller can hold that caller's name.
FreshId(c) == c

\* The callers whose message carries the string of another caller's draw.
Collided == {d \in Callers : ep[Cli(d)].msgid \notin {0, FreshId(d)}}

\* What randStringBytesMaskImprSrcSB can return to the goroutine of c, which
\* entered src.Int63() and holds seed 0 (src not written since) or the output
\* of the draw that wrote src meanwhile.  src is shared and not locked: such
\* a draw read the state the other draw read, and returns the same string
\* or, from a torn state, another one.
DrawnIds(c) ==
    IF ep[Cli(c)].seed = 0 \/ Cardinality(Collided) >= MaxCollided
    THEN {FreshId(c)}
    ELSE {ep[Cli(c)].seed, FreshId(c)}

\* The message SendMsgWithReply builds: NewRNSMsg(subject) with the id drawn,
\* X-RNS-OP and the encoded request.
RequestMsg(c, id) ==
    [id |-> id, chunks |-> NoHdr, op |-> OperationName(call[c].op),
     data |-> Payload(call[c].len), reply |-> TRUE]

\* SendMsgWithReply from the type switch into NewRNSMsg: the goroutine is in
\* src.Int63() and has read the state of src.
Dispatch(c) ==
    LET e == Cli(c) IN
    /\ ep[e].pc = "Dispatch"
    /\ ep' = [ep EXCEPT ![e] = IF SchemaOK(call[c])
                               THEN [@ EXCEPT !.pc = "NewRNSMsg", !.seed = 0,
                                              !.starved = FALSE]
                               ELSE [@ EXCEPT !.pc = "failed", !.err = "schema",
                                              !.starved = FALSE]]
    /\ UNCHANGED <<cfg, fac, call, ctxDone, wire, sem, holds, ret>>

\* NewRNSMsg returns: src.Int63() writes src and the id is set; then
\* SendMsgWithReply encodes the request and sends the first request.  Every
\* goroutine that is inside src.Int63() now holds a state that was written
\* over.
NewRNSMsg(c) ==
    LET e == Cli(c) IN
    /\ ep[e].pc = "NewRNSMsg"
    /\ \E id \in DrawnIds(c), encOK \in BOOLEAN :
          LET r == [ep[e] EXCEPT !.msgid = id, !.seed = 0]
              s == IF ~encOK
                   THEN [r |-> [r EXCEPT !.pc = "failed", !.err = "encode"],
                         emit |-> {}]
                   ELSE ChunkSendRequestBegin(e, r, RequestMsg(c, id))
          IN  /\ ep' = [d \in Endpoints |->
                          IF d = e THEN s.r
                          ELSE IF d[2] = "cli" /\ ep[d].pc = "NewRNSMsg"
                                  /\ ep[d].seed = 0
                          THEN [ep[d] EXCEPT !.seed = id]
                          ELSE ep[d]]
              /\ wire' = wire \cup s.emit
    /\ UNCHANGED <<cfg, fac, call, ctxDone, sem, holds, ret>>

\* A dispatch slip: the token is released on the successful return only.
TokensAfterSuccessOnly(s, err) == IF err = "" THEN s - 1 ELSE s

\* defer be.sem.ReleaseToken(): the tokens taken after a return with err.
TokensAfterReturn(s, err) == s - 1

\* The functions of the protocol package are exported.  A caller hands one
\* of them a message it made itself, without X-RNS-MSGID; the call is over
\* when the function returns an error, and what it put on the bus stays.
ProtocolCallReturns(c, fn, s) ==
    /\ call' = [call EXCEPT ![c] = [NoCall EXCEPT !.facade = fn]]
    /\ ret' = [ret EXCEPT ![c] = [err |-> s.r.err, data |-> <<>>]]
    /\ ep' = [ep EXCEPT ![Cli(c)] = IF s.r.pc = "failed" THEN InitEp("cli")
                                    ELSE s.r]
    /\ wire' = wire \cup s.emit
    /\ UNCHANGED <<cfg, fac, ctxDone, sem, holds>>

\* ChunkSendRequestMsgWithContext(ctx, conn, msg, log), msg without an id.
SendRequestNoId(c) ==
    /\ c \in cfg.callers /\ Cardinality(cfg.callers) = 1
    /\ ep[Cli(c)].pc = "idle"
    /\ \E n \in {0, cfg.lencap} :
          LET msg == [id |-> 0, chunks |-> NoHdr, op |-> "", data |-> Payload(n),
                      reply |-> TRUE]
          IN  ProtocolCallReturns(c, "ChunkSendRequestMsgWithContext",
                 ChunkSendRequestBegin(Cli(c), InitEp("cli"), msg))

\* ChunkReadRequestMsgWithContext(ctx, conn, msg, log), msg a reply without
\* an id, chunked or not.
ReadReplyNoId(c) ==
    /\ c \in cfg.callers /\ Cardinality(cfg.callers) = 1
    /\ ep[Cli(c)].pc = "idle"
    /\ \E chunks \in {NoHdr, 1}, subOK \in BOOLEAN, ctlOK \in BOOLEAN :
          LET m == WireMsg(Cli(c), "inbox", TRUE, 0, chunks, NoHdr, 0, "",
                           Payload(1))
          IN  ProtocolCallReturns(c, "ChunkReadRequestMsgWithContext",
                 ChunkReadBegin(Cli(c), InitEp("cli"), m, subOK, ctlOK))

\* SendMsgWithReply returns: it decodes the reply it read (or passes the
\* error on) and the deferred ReleaseToken runs.  The transaction is over:
\* what is still on the bus for it finds no interest.  A responder that is
\* still in its reader is followed until the reader has come back.
Return(c) ==
    LET e == Cli(c) IN
    /\ ep[e].pc \in {"Decode", "failed"}
    /\ ep[Wrk(c)].pc \notin {"readChunk", "unsub"}
    /\ \E decOK \in BOOLEAN :
          LET err == IF ep[e].pc = "failed" THEN ep[e].err
                     ELSE IF decOK THEN "" ELSE "decode"
          IN  /\ ret' = [ret EXCEPT ![c] =
                            [err |-> err,
                             data |-> IF err = "" THEN ep[e].acc.data ELSE <<>>]]
              /\ sem' = TokensAfterReturn(sem, err)
              /\ holds' = [holds EXCEPT ![c] = TokensAfterReturn(@, err)]
    /\ ep' = [ep EXCEPT ![e] = InitEp("cli"), ![Wrk(c)] = InitEp("wrk")]
    /\ wire' = {m \in wire : m.to[1] # c}
    /\ ctxDone' = [ctxDone EXCEPT ![e] = FALSE, ![Wrk(c)] = FALSE]
    /\ UNCHANGED <<cfg, fac, call>>

(* ------------------------------ the responder -------------------------- *)

\* The reply payload: bytes that name their offset, apart from a request's.
ReplyPayload(n) == [k \in 1..n |-> 100 + k]

\* The responder's subscription on repo.commands.<op> hands it the request,
\* which it reads with ChunkReadRequestMsgWithContext.
Serve(c) ==
    LET e == Wrk(c) IN
    /\ ep[e].pc = "listen"
    /\ \E m \in wire, subOK \in BOOLEAN, ctlOK \in BOOLEAN :
          /\ m.to = e /\ m.subj = "cmd"
          /\ LET s == ChunkReadBegin(e, ep[e], m, subOK, ctlOK)
             IN  /\ ep' = [ep EXCEPT ![e] = s.r]
                 /\ wire' = (wire \ {m}) \cup s.emit
    /\ UNCHANGED <<cfg, fac, call, ctxDone, sem, holds, ret>>

\* A responder that knows nothing of chunks answers the initial chunk of a
\* request like any request: a reply without X-RNS-CHUNK-SUBJECT.
ServePlain(c) ==
    LET e == Wrk(c) IN
    /\ ep[e].pc = "listen"
    /\ \E m \in wire :
          /\ m.to = e /\ m.subj = "cmd" /\ m.reply /\ m.chunks \notin {NoHdr, BadHdr}
          /\ LET plain == WireMsg(Peer(e), "inbox", FALSE, m.id, NoHdr, NoHdr, 0,
                                  m.op, <<>>)
             IN  /\ ep' = [ep EXCEPT ![e].pc = "answered",
                                     ![e].resp = <<LogEntry("respond", plain)>>]
                 /\ wire' = (wire \ {m}) \cup {plain}
    /\ UNCHANGED <<cfg, fac, call, ctxDone, sem, holds, ret>>

\* A responder answers a short request with a reply that says
\* X-RNS-CHUNKS: 0, no chunk to follow.
ServeZeroChunks(c) ==
    LET e == Wrk(c) IN
    /\ ep[e].pc = "listen"
    /\ \E m \in wire :
          /\ m.to = e /\ m.subj = "cmd" /\ m.reply /\ m.chunks = NoHdr
          /\ LET zero == WireMsg(Peer(e), "inbox", FALSE, m.id, 0, NoHdr, 0,
                                 m.op, ReplyPayload(0))
             IN  /\ ep' = [ep EXCEPT ![e].pc = "answered",
                                     ![e].resp = <<LogEntry("respond", zero)>>]
                 /\ wire' = (wire \ {m}) \cup {zero}
    /\ UNCHANGED <<cfg, fac, call, ctxDone, sem, holds, ret>>

\* The responder answers the request it read with
\* ChunkSendReplyMsgWithContext(ctx, conn, replyto, msg), msg being a message
\* of its own making, with the request's id or with none.
Reply(c) ==
    LET e == Wrk(c) IN
    /\ ep[e].pc = "Handle"
    /\ \E n \in RepLens(call[c].op), sendOK \in BOOLEAN, hasId \in BOOLEAN :
          LET msg == [id |-> IF hasId THEN ep[e].acc.id ELSE 0, chunks |-> NoHdr,
                      op |-> ep[e].acc.op, data |-> ReplyPayload(n),
                      reply |-> FALSE]
              s == ChunkSendReplyBegin(e, ep[e], msg, sendOK)
          IN  /\ ep' = [ep EXCEPT ![e] = s.r]
              /\ wire' = wire \cup s.emit
    /\ UNCHANGED <<cfg, fac, call, ctxDone, sem, holds, ret>>

(* ---------------------------- the specification ------------------------ *)

Next ==
    \/ \E c \in Callers :
          \/ Call(c)
          \/ GetToken(c)
          \/ Dispatch(c)
          \/ NewRNSMsg(c)
          \/ SendRequestNoId(c)
          \/ ServePlain(c)
          \/ ServeZeroChunks(c)
          \/ ReadReplyNoId(c)
          \/ SendGotReply(c)
          \/ Return(c)
          \/ Serve(c)
          \/ Reply(c)
    \/ \E e \in Endpoints :
          \/ SendGotControl(e)
          \/ SendGotAck(e)
          \/ SendFails(e)
          \/ ReadChunk(e)
          \/ ReadCtxDone(e)
          \/ ReadUnsubscribe(e)
          \/ Deliver(e)
          \/ Drop(e)
          \/ Cancel(e)

Spec == Init /\ [][Next]_vars

TypeOK ==
    /\ sem \in 0..(MaxConnections + NumCallers)
    /\ \A e \in Endpoints : ep[e].i \in 0..(MaxLen + 2)

(* ============================ properties =============================== *)

(* ------------------------- chunked round trip -------------------------- *)

\* C1: for every payload D and every maxchunksize M >= 1, what the receiver
\* returns after the sender split D is byte for byte D: the responder, when
\* the reader hands it the request, holds the payload the caller encoded, and
\* the client, when the reader hands it the reply, holds the payload the
\* responder sent.
C1_RoundTripExact ==
    \A c \in Callers :
       /\ ep[Wrk(c)].pc = "Handle" => ep[Wrk(c)].acc.data = Payload(call[c].len)
       /\ ep[Cli(c)].pc = "Decode" => ep[Cli(c)].acc.data = ep[Wrk(c)].out.data

\* A reply of the greatest length, reassembled from an initial chunk and at
\* least two follow-on chunks, has been returned to the client.
C1_Witness ==
    \E c \in Callers :
       /\ ep[Cli(c)].pc = "Decode"
       /\ IsChunked(ep[Cli(c)].acc) /\ ep[Cli(c)].acc.chunks >= 2
       /\ ep[Cli(c)].acc.data = ReplyPayload(MaxLen)

\* The sender side of endpoint e has returned without an error: the client
\* holds the logical reply, the responder has sent its last message.
SendDone(e) ==
    IF e[2] = "cli" THEN ep[e].pc \in {"readChunk", "unsub", "Decode"}
                    ELSE ep[e].pc = "done"

\* C2: a completed send of D with |D| >= M is the initial chunk D[0:M]
\* announcing P = floor(|D|/M) and then exactly P follow-on chunks, numbered
\* 1..P, chunk i carrying D[i*M : min((i+1)*M, |D|)]; no message that is sent
\* carries more than M bytes.
C2_ExactChunks ==
    \A e \in Endpoints :
       LET D == ep[e].out.data
           M == cfg.maxchunksize
           P == Len(D) \div M
           S == ep[e].sent
       IN  /\ \A j \in 1..Len(S) : Len(S[j].data) <= M
           /\ (SendDone(e) /\ Len(D) >= M) =>
                 /\ Len(S) = P + 1
                 /\ S[1].chunks = P /\ S[1].seq = NoHdr
                 /\ S[1].data = SubSeq(D, 1, M)
                 /\ \A i \in 1..P :
                       /\ S[i + 1].subj = "chunk" /\ S[i + 1].seq = i
                       /\ S[i + 1].data =
                             SubSeq(D, i * M + 1,
                                    IF (i + 1) * M < Len(D) THEN (i + 1) * M
                                                             ELSE Len(D))

\* A send of at least two follow-on chunks has completed whose last chunk is
\* partial: it carries bytes, but fewer than M.
C2_Witness ==
    \E e \in Endpoints :
       LET S == ep[e].sent
       IN  /\ SendDone(e) /\ Len(S) >= 3
           /\ S[Len(S)].data # <<>>
           /\ Len(S[Len(S)].data) < cfg.maxchunksize

(* ------------------------------ the semaphore -------------------------- *)

\* The callers between the return of GetToken and the return of
\* SendMsgWithReply.
InFlight == {c \in Callers : ep[Cli(c)].pc \notin {"idle", "GetToken"}}

\* C3: with connection bound N, at most N callers are between acquiring a
\* token and releasing it, so at most N commands are on the bus at any
\* instant.
C3_AtMostNInFlight ==
    /\ Cardinality(InFlight) <= cfg.connections
    /\ Cardinality({c \in Callers :
                       \E m \in wire : m.to[1] = c /\ m.subj = "cmd"})
          <= cfg.connections

\* Every token is taken by a command that waits for its reply while another
\* caller is blocked in GetToken.
C3_Witness ==
    \E c1 \in Callers, c2 \in Callers :
       /\ c1 # c2
       /\ ep[Cli(c1)].pc = "awaitReply"
       /\ ep[Cli(c2)].pc = "GetToken"
       /\ sem = cfg.connections

\* C4: every round trip takes exactly one token and gives exactly one back on
\* every exit path: a caller inside the round trip holds one token, a caller
\* outside it none, the tokens taken are those of the callers inside, and
\* when no round trip is running all N tokens are free.
C4_OneTokenPerRoundTrip ==
    /\ \A c \in Callers : holds[c] = IF c \in InFlight THEN 1 ELSE 0
    /\ sem = Cardinality(InFlight)
    /\ InFlight = {} => (sem = 0 /\ TokenFree)

\* A round trip whose reassembly was cancelled has returned the error, and
\* every token is free again.
C4_Witness ==
    \E c \in Callers :
       /\ ret[c].err = "deadline"
       /\ ep[Cli(c)].pc = "idle"
       /\ holds[c] = 0 /\ sem = 0

C6_LoadCancelEndsReassembly ==
    \A c \in Callers :
       (/\ call[c].facade = "Load"
        /\ ep[Cli(c)].pc = "readChunk"
        /\ ep[Cli(c)].chan = <<>>
        /\ ctxDone[Cli(c)])
          => ENABLED ReadCtxDone(Cli(c))

(* ------------------------------ reassembly ----------------------------- *)

\* C7: on every exit of the reassembly (the message, an ack that fails, the
\* context done) the chunk subscription is removed: an endpoint that is not
\* inside the reassembly has no subscription.
C7_SubscriptionRemoved ==
    \A e \in Endpoints :
       ep[e].pc \notin {"readChunk", "unsub"} => ~ep[e].sub

\* A reassembly that had subscribed has returned the error of a failed ack,
\* and the subscription is gone.
C7_Witness ==
    \E e \in Endpoints :
       /\ ep[e].pc = "failed" /\ ep[e].err = "ackfail"
       /\ ep[e].subs = 1 /\ ~ep[e].sub

\* The messages of e's chunked transfer that its peer has not taken yet.
Unread(e) ==
    {m \in wire : m.to = Peer(e) /\ m.subj \in {"chunk", "cmd"}}
       \cup {m \in wire : m.to = Peer(e) /\ m.subj = "inbox" /\ m.reply}

\* C8: chunked sending is stop-and-wait.  A sender has sent at most one
\* message more than it has taken replies; the replies it took are, in
\* order, the control reply and the acks its reader sent; and at most one
\* message of the transfer is on the bus.
C8_StopAndWait ==
    \A e \in Endpoints :
       LET S == ep[e].sent
           G == ep[e].got
           R == ep[Peer(e)].resp
           P == Len(ep[e].out.data) \div cfg.maxchunksize
       IN  (S # <<>> /\ S[1].chunks # NoHdr) =>
              /\ Len(S) <= Len(G) + 1
              /\ \A j \in 1..Len(G) :
                    j <= P => /\ j <= Len(R)
                              /\ G[j] = [R[j] EXCEPT !.mode = "reply"]
              /\ Cardinality(Unread(e)) <= 1

\* A sender has taken the control reply and the ack of chunk 1, and waits
\* for the ack of chunk 2, which is still on the bus.
C8_Witness ==
    \E e \in Endpoints :
       /\ ep[e].pc = "awaitAck" /\ ep[e].i = 2
       /\ Len(ep[e].got) = 2
       /\ \E m \in wire : m.to = Peer(e) /\ m.subj = "chunk" /\ m.seq = 2

\* C9 as the specification states it: on both paths the final chunk is
\* published and every message before it is a request.
C9_FinalChunkPublished ==
    \A e \in Endpoints :
       LET S == ep[e].sent
       IN  (S # <<>> /\ S[1].chunks # NoHdr) =>
              \A j \in 1..Len(S) :
                 S[j].mode = IF j = S[1].chunks + 1 THEN "publish" ELSE "request"

\* C9: the final chunk (i = P) is published, without a reply subject, on the
\* reply path only; on the request path it is a request like the others,
\* and its reply is the logical reply.  The initial chunk and chunks
\* 1..P-1 are requests on both paths.
C9_FinalChunkByPath ==
    /\ \A e \in Endpoints :
          LET S == ep[e].sent
          IN  (S # <<>> /\ S[1].chunks # NoHdr) =>
                 \A j \in 1..Len(S) :
                    S[j].mode = IF j = S[1].chunks + 1 /\ e[2] = "wrk"
                                THEN "publish" ELSE "request"
    /\ \A m \in wire :
          m.subj = "chunk" =>
             (m.reply <=> ~(m.to[2] = "cli" /\ m.seq = ep[Peer(m.to)].pages))

\* The client has sent the final chunk of a request of at least two
\* follow-on chunks, as a request, and waits for the logical reply.
C9_Witness ==
    \E c \in Callers :
       LET S == ep[Cli(c)].sent
       IN  /\ ep[Cli(c)].pc = "awaitReply"
           /\ Len(S) >= 3
           /\ S[Len(S)].seq = S[1].chunks
           /\ S[Len(S)].mode = "request"

\* C10 as the specification states it: a request shorter than M is exactly
\* one request, with no follow-on chunk, and no chunk subscription is ever
\* created during the call.
C10_ShortRequestNoSubscription ==
    \A c \in Callers :
       LET e == Cli(c)
           S == ep[e].sent
       IN  (S # <<>> /\ Len(ep[e].out.data) < cfg.maxchunksize) =>
              /\ S = <<[S[1] EXCEPT !.mode = "request", !.subj = "cmd",
                                    !.data = ep[e].out.data]>>
              /\ ep[e].subs = 0 /\ ep[Wrk(c)].subs = 0

\* C10: a request shorter than M is exactly one request, without the
\* X-RNS-CHUNKS header and with no follow-on chunk; nobody subscribes to a
\* chunk subject to move the request, and the caller subscribes to one at
\* most once, to reassemble a reply that carries X-RNS-CHUNKS.
C10_ShortRequestOneMessage ==
    \A c \in Callers :
       LET e == Cli(c)
           S == ep[e].sent
       IN  (S # <<>> /\ Len(ep[e].out.data) < cfg.maxchunksize) =>
              /\ S = <<[S[1] EXCEPT !.mode = "request", !.subj = "cmd",
                                    !.chunks = NoHdr, !.seq = NoHdr,
                                    !.data = ep[e].out.data]>>
              /\ ep[Wrk(c)].subs = 0
              /\ ep[e].subs <= 1
              /\ ep[e].subs = 1 => ep[e].acc.chunks # NoHdr

\* A call whose request was short has subscribed to a chunk subject, and
\* returns the reply it reassembled.
C10_Witness ==
    \E c \in Callers :
       /\ ep[Cli(c)].pc = "Decode"
       /\ Len(ep[Cli(c)].sent) = 1
       /\ Len(ep[Cli(c)].out.data) < cfg.maxchunksize
       /\ ep[Cli(c)].subs = 1

(* ------------------------------ identifiers ---------------------------- *)

\* C11: every message of one transaction carries the X-RNS-MSGID that
\* NewRNSMsg gave the request: what either side has sent (initial chunk,
\* follow-on chunks, the reply), what either side has responded (control
\* reply, chunk acks), and what is on the bus.
C11_OneMsgIdPerTransaction ==
    \A c \in Callers :
       LET id == ep[Cli(c)].msgid
       IN  /\ \A e \in {Cli(c), Wrk(c)} :
                /\ \A j \in 1..Len(ep[e].sent) : ep[e].sent[j].id = id
                /\ \A j \in 1..Len(ep[e].resp) : ep[e].resp[j].id = id
           /\ \A m \in wire : m.to[1] = c => m.id = id

\* A chunked request is under way: the caller has sent the initial chunk
\* and two follow-on chunks, the responder its control reply and an ack.
C11_Witness ==
    \E c \in Callers :
       /\ ep[Cli(c)].msgid # 0
       /\ Len(ep[Cli(c)].sent) >= 3
       /\ Len(ep[Wrk(c)].resp) >= 2
       /\ ep[Cli(c)].sent[3].id = ep[Cli(c)].msgid
       /\ ep[Wrk(c)].resp[2].id = ep[Cli(c)].msgid

\* C12 as the specification states it: the messages of two transactions
\* never carry the same X-RNS-MSGID.
C12_MsgIdsUnique ==
    \A c1 \in Callers, c2 \in Callers :
       (c1 # c2 /\ ep[Cli(c1)].msgid # 0) => ep[Cli(c1)].msgid # ep[Cli(c2)].msgid

(* ---------------------------- protocol errors -------------------------- *)

\* C13: a message without X-RNS-MSGID is a protocol error.  The send and
\* read functions given one return the error at once: the caller is left
\* with no message sent, no subscription and no response; the responder
\* whose reply has no id has sent nothing; and no message without an id is
\* ever on the bus.
C13_NoIdIsAnError ==
    /\ \A c \in Callers :
          call[c].facade \in {"ChunkSendRequestMsgWithContext",
                              "ChunkReadRequestMsgWithContext"} =>
             /\ ret[c].err = "msgid"
             /\ ep[Cli(c)].pc = "idle"
             /\ ep[Cli(c)].sent = <<>> /\ ep[Cli(c)].resp = <<>>
             /\ ep[Cli(c)].subs = 0 /\ ~ep[Cli(c)].sub
             /\ \A m \in wire : m.to[1] # c
    /\ \A c \in Callers :
          /\ ep[Wrk(c)].pc \in {"done", "awaitControl", "awaitAck"}
                => ep[Wrk(c)].out.id # 0
          /\ (ep[Wrk(c)].pc = "failed" /\ ep[Wrk(c)].err = "msgid")
                => ep[Wrk(c)].sent = <<>>
    /\ \A m \in wire : m.id # 0

\* The reader was handed a reply without an id and has returned the error.
C13_Witness ==
    \E c \in Callers :
       /\ call[c].facade = "ChunkReadRequestMsgWithContext"
       /\ ret[c].err = "msgid"

(* ------------------------------- dispatch ------------------------------ *)

\* The call of c names one of the seven commands and its request value or
\* its reply value is not of the command's type.
Mismatched(c) ==
    /\ call[c].facade = "SendMsgWithReply"
    /\ call[c].op \in NatsCommands
    /\ \/ call[c].sendT # ReqSchema(call[c].op)
       \/ call[c].recvT # RepSchema(call[c].op)

\* C14: SendMsgWithReply called for one of the seven commands with a request
\* value of another type, or with a reply value that is not a pointer to the
\* command's reply type, returns the schema error and has sent no message.
C14_SchemaMismatchSendsNothing ==
    \A c \in Callers :
       Mismatched(c) =>
          /\ ep[Cli(c)].pc \in {"idle", "GetToken", "Dispatch", "failed"}
          /\ ep[Cli(c)].pc = "failed" => ep[Cli(c)].err = "schema"
          /\ ep[Cli(c)].pc = "idle" => ret[c].err = "schema"
          /\ ep[Cli(c)].sent = <<>> /\ ep[Cli(c)].msgid = 0
          /\ ep[Wrk(c)].pc = "listen"
          /\ \A m \in wire : m.to[1] # c

\* A call with the right request value and a wrong reply value has returned.
C14_Witness ==
    \E c \in Callers :
       /\ Mismatched(c)
       /\ call[c].sendT = ReqSchema(call[c].op)
       /\ ep[Cli(c)].pc = "idle"
       /\ ret[c].err = "schema"

(* ------------------------- the Backend's methods ----------------------- *)

\* Above the bus a round trip is one step: the command goes out and the
\* responder's answer, or a failure of the transfer, comes back.  fac.cmds
\* lists the commands sent with what came back, fac.fns the calls of the
\* caller's fn with what fn returned.

\* alltypes of Delete.
alltypes == <<"PackFile", "KeyFile", "LockFile", "SnapshotFile", "IndexFile">>

ConfigHandle == [type |-> "ConfigFile", name |-> 0]

\* be.Paths(): the directories of the layout.
Paths == [d \in 1..NumPaths |-> [type |-> "path", name |-> d]]

\* b.Filename(h): the layout's full filename of h, its directory and name.
Filename(h) == [dir |-> h.type, base |-> h.name]

\* restic.FileInfo{Name: h.Name}: the bare name.
StatName(h) == [dir |-> "", base |-> h.name]

\* The listings a responder returns: names in an order that is not sorted.
EntrySeqs == {[j \in 1..n |-> n + 1 - j] : n \in 0..MaxEntries}

\* The data a responder returns to Load.
LoadData == {Payload(n) : n \in 0..1}

\* What comes back from a round trip: the transfer failed, or the reply
\* with its ok and its data.
RoundTrips(datas) ==
    {[err |-> "transport", ok |-> FALSE, data |-> <<>>]}
       \cup {[err |-> "", ok |-> ok, data |-> d] : ok \in BOOLEAN, d \in datas}

\* The command op on arg went out and rt came back.
Sent(f, op, arg, rt) ==
    Append(f.cmds, [op |-> op, arg |-> arg, err |-> rt.err, ok |-> rt.ok,
                    data |-> rt.data])

\* The error of a method of one command: the transfer's, or for a reply
\* with ok=false the method's own error (first revision) or the reply's
\* (second revision).
ResultErr(v, rt, failed) ==
    IF rt.err # "" THEN rt.err
    ELSE IF ~rt.ok THEN (IF v = 1 THEN failed ELSE "result.Err")
    ELSE ""

\* Open: the first revision does not look at result.Ok.
OpenErr(v, rt) ==
    IF rt.err # "" THEN rt.err
    ELSE IF v = 2 /\ ~rt.ok THEN "result.Err"
    ELSE ""

\* List: the first revision does not look at result.Ok.
ListErr(v, rt) ==
    IF rt.err # "" THEN rt.err
    ELSE IF v = 2 /\ ~rt.ok THEN "result.Err"
    ELSE ""

\* Test, given the error of its Stat.  First revision: true iff Stat
\* succeeded, never an error.  Second revision: Stat's error is handed on,
\* and a Stat that succeeded counts only if the name it returned is the
\* layout's filename of h.
TestReturn(v, h, staterr) ==
    IF v = 1 THEN [err |-> "", ok |-> staterr = ""]
    ELSE IF staterr # "" THEN [err |-> staterr, ok |-> FALSE]
    ELSE [err |-> "", ok |-> StatName(h) = Filename(h)]

\* The method in progress returns (ok, err).
Returned(f, err, ok) == [f EXCEPT !.pc = "done", !.out = [err |-> err, ok |-> ok]]

\* A dispatch slip: Load hands every reply it got to fn.
LoadAcceptsAnyReply(rt) == rt.err = ""

\* Load goes on to fn when the round trip succeeded and result.Ok is set.
LoadAccepts(rt) == rt.err = "" /\ rt.ok

\* A loop slip: List goes on after fn returned an error.
FnNeverStops(err) == FALSE

\* `if err := fn(rfi); err != nil { return err }`
FnStops(err) == err # ""

\* The methods a caller invokes, and where each begins.
Methods == {"Open", "Create", "Stat", "Test", "List", "Load", "Remove",
            "Mkdir", "Delete"}

Entry(m) ==
    CASE m = "Test" -> "Stat"
      [] m = "Create" -> "Open"
      [] OTHER -> m

Handles(m) ==
    CASE m \in {"Stat", "Test", "Load", "Remove"} ->
            {[type |-> "KeyFile", name |-> 1], ConfigHandle}
      [] m = "List" -> {[type |-> "KeyFile", name |-> 0]}
      [] m = "Mkdir" -> {Paths[1]}
      [] OTHER -> {NoHandle}

\* A caller invokes a method of the Backend.
BackendCall ==
    /\ fac.pc \in {"idle", "done"}
    /\ \E m \in Methods : \E h \in Handles(m) :
          fac' = [IdleFacade(fac.version) EXCEPT !.method = m, !.pc = Entry(m),
                                                 !.h = h]
    /\ UNCHANGED <<cfg, call, ctxDone, ep, wire, sem, holds, ret>>

\* Open sends the open command; Create goes on to look for the config file.
BackendOpen ==
    /\ fac.pc = "Open"
    /\ \E rt \in RoundTrips({<<>>}) :
          LET f == [fac EXCEPT !.cmds = Sent(fac, NatsOpenCmd, NoHandle, rt)]
              err == OpenErr(fac.version, rt)
          IN  fac' = IF fac.method = "Open" THEN Returned(f, err, err = "")
                     ELSE IF err # "" THEN Returned(f, "Create Repo", FALSE)
                     ELSE [f EXCEPT !.pc = "Stat", !.h = ConfigHandle]
    /\ UNCHANGED <<cfg, call, ctxDone, ep, wire, sem, holds, ret>>

\* Stat sends the stat command.  Test turns Stat's result into a boolean.
\* Create returns "config file already exists" when the config file is
\* there, which the first revision takes from Stat and the second from
\* Test, and goes on to the layout's paths when it is not.
BackendStat ==
    /\ fac.pc = "Stat"
    /\ \E rt \in RoundTrips({<<>>}) :
          LET f == [fac EXCEPT !.cmds = Sent(fac, NatsStatCmd, fac.h, rt)]
              err == ResultErr(fac.version, rt, "File does not exist")
              test == TestReturn(fac.version, fac.h, err)
              exist == IF fac.version = 1 THEN err = "" ELSE test.ok
          IN  fac' = CASE fac.method = "Stat" -> Returned(f, err, err = "")
                       [] fac.method = "Test" -> Returned(f, test.err, test.ok)
                       [] OTHER ->
                            IF exist
                            THEN Returned(f, "config file already exists", FALSE)
                            ELSE IF NumPaths = 0 THEN Returned(f, "", TRUE)
                            ELSE [f EXCEPT !.pc = "Mkdir", !.k = 1]
    /\ UNCHANGED <<cfg, call, ctxDone, ep, wire, sem, holds, ret>>

\* Mkdir sends the mkdir command; Create sends one for each path in order
\* and returns the first error without a Backend.
BackendMkdir ==
    /\ fac.pc = "Mkdir"
    /\ \E rt \in RoundTrips({<<>>}) :
          LET d == IF fac.method = "Mkdir" THEN fac.h ELSE Paths[fac.k]
              f == [fac EXCEPT !.cmds = Sent(fac, NatsMkdirCmd, d, rt)]
              err == ResultErr(fac.version, rt, "mkdir Failed")
          IN  fac' = IF fac.method = "Mkdir" THEN Returned(f, err, err = "")
                     ELSE IF err # "" THEN Returned(f, err, FALSE)
                     ELSE IF fac.k < NumPaths THEN [f EXCEPT !.k = fac.k + 1]
                     ELSE Returned(f, "", TRUE)
    /\ UNCHANGED <<cfg, call, ctxDone, ep, wire, sem, holds, ret>>

\* Load sends the load command and goes on to fn when the reply is good.
BackendLoad ==
    /\ fac.pc = "Load"
    /\ \E rt \in RoundTrips(LoadData) :
          LET f == [fac EXCEPT !.cmds = Sent(fac, NatsLoadCmd, fac.h, rt)]
          IN  fac' = IF LoadAccepts(rt)
                     THEN [f EXCEPT !.pc = "LoadFn", !.res = rt.data]
                     ELSE Returned(f, ResultErr(fac.version, rt, "Load Failed"),
                                   FALSE)
    /\ UNCHANGED <<cfg, call, ctxDone, ep, wire, sem, holds, ret>>

\* Load calls fn(bytes.NewReader(result.Data)) and returns what fn returned.
BackendLoadFn ==
    /\ fac.pc = "LoadFn"
    /\ \E err \in {"", "fn"} :
          fac' = Returned([fac EXCEPT !.fns = Append(fac.fns,
                                         [arg |-> fac.res, err |-> err])],
                          err, err = "")
    /\ UNCHANGED <<cfg, call, ctxDone, ep, wire, sem, holds, ret>>

\* List has returned err.  Delete returns nil when removeKeys failed, goes
\* on to the next type when it did not, and to the config file after the
\* last type.
ListReturned(f, err) ==
    IF f.method = "List" THEN Returned(f, err, err = "")
    ELSE IF err # "" THEN Returned(f, "", TRUE)
    ELSE IF f.t < Len(alltypes)
         THEN [f EXCEPT !.pc = "List", !.t = f.t + 1, !.res = <<>>, !.k = 0]
    ELSE [f EXCEPT !.pc = "Remove", !.h = ConfigHandle]

\* The type List lists: its argument, or in Delete the type removeKeys is at.
ListType(f) == IF f.method = "List" THEN f.h.type ELSE alltypes[f.t]

\* List sends the list command and goes on to the entries of the reply.
BackendList ==
    /\ fac.pc = "List"
    /\ \E rt \in RoundTrips(EntrySeqs) :
          LET f == [fac EXCEPT !.cmds = Sent(fac, NatsListCmd,
                                  [type |-> ListType(fac), name |-> 0], rt)]
              err == ListErr(fac.version, rt)
          IN  fac' = IF err # "" \/ rt.data = <<>> THEN ListReturned(f, err)
                     ELSE [f EXCEPT !.pc = "ListFn", !.res = rt.data, !.k = 1]
    /\ UNCHANGED <<cfg, call, ctxDone, ep, wire, sem, holds, ret>>

\* List calls fn on the entry it is at.  The caller's fn returns what it
\* likes; removeKeys' fn is Remove of the entry, one more round trip.
BackendListFn ==
    /\ fac.pc = "ListFn"
    /\ \E rt \in RoundTrips({<<>>}), fnerr \in {"", "fn"} :
          LET name == fac.res[fac.k]
              h == [type |-> ListType(fac), name |-> name]
              err == IF fac.method = "List" THEN fnerr
                     ELSE ResultErr(fac.version, rt, "Remove Failed")
              g == [fac EXCEPT !.fns = Append(fac.fns,
                                          [arg |-> name, err |-> err])]
              f == IF fac.method = "List" THEN g
                   ELSE [g EXCEPT !.cmds = Sent(fac, NatsRemoveCmd, h, rt)]
          IN  fac' = IF FnStops(err) THEN ListReturned(f, err)
                     ELSE IF fac.k < Len(fac.res) THEN [f EXCEPT !.k = fac.k + 1]
                     ELSE ListReturned(f, "")
    /\ UNCHANGED <<cfg, call, ctxDone, ep, wire, sem, holds, ret>>

\* Remove sends the remove command.  Delete removes the config file last:
\* IsNotExist is false for every error, so Remove's error is Delete's.
BackendRemove ==
    /\ fac.pc = "Remove"
    /\ \E rt \in RoundTrips({<<>>}) :
          LET f == [fac EXCEPT !.cmds = Sent(fac, NatsRemoveCmd, fac.h, rt)]
              err == ResultErr(fac.version, rt, "Remove Failed")
          IN  fac' = Returned(f, err, err = "")
    /\ UNCHANGED <<cfg, call, ctxDone, ep, wire, sem, holds, ret>>

\* Delete: the first revision returns "TODO Delete"; the second begins
\* removeKeys on the first of alltypes.
BackendDelete ==
    /\ fac.pc = "Delete"
    /\ fac' = IF fac.version = 1 THEN Returned(fac, "TODO Delete", FALSE)
              ELSE [fac EXCEPT !.pc = "List", !.t = 1]
    /\ UNCHANGED <<cfg, call, ctxDone, ep, wire, sem, holds, ret>>

FacadeInit ==
    /\ cfg = [callers |-> {1}, connections |-> 1, maxchunksize |-> 1,
              lencap |-> 0]
    /\ call = [c \in Callers |-> NoCall]
    /\ ctxDone = [e \in Endpoints |-> FALSE]
    /\ ep = [e \in Endpoints |-> InitEp(e[2])]
    /\ wire = {}
    /\ sem = 0
    /\ holds = [c \in Callers |-> 0]
    /\ ret = [c \in Callers |-> NoRet]
    /\ \E v \in Versions : fac = IdleFacade(v)

FacadeNext ==
    \/ BackendCall
    \/ BackendOpen
    \/ BackendStat
    \/ BackendMkdir
    \/ BackendLoad
    \/ BackendLoadFn
    \/ BackendList
    \/ BackendListFn
    \/ BackendRemove
    \/ BackendDelete

FacadeSpec == FacadeInit /\ [][FacadeNext]_vars

(* ------------------------ the Backend's contract ----------------------- *)

\* The answer to the first command of the method in progress is a reply
\* with ok=true.
FirstOk == fac.cmds # <<>> /\ fac.cmds[1].err = "" /\ fac.cmds[1].ok

\* C15: Test(h) returns true if and only if Stat(h) succeeds.  When the
\* responder answers Stat with ok=false, Stat returns an error and Test
\* returns (false, nil); when it answers ok=true, Stat succeeds and Test
\* returns (true, nil).
C15_TestIffStat ==
    (fac.pc = "done" /\ fac.method \in {"Stat", "Test"}) =>
       /\ fac.method = "Stat" => (fac.out.err = "" <=> FirstOk)
       /\ fac.method = "Test" =>
             /\ fac.out.ok <=> FirstOk
             /\ (fac.cmds[1].err = "" /\ ~fac.cmds[1].ok)
                   => fac.out = [err |-> "", ok |-> FALSE]
             /\ FirstOk => fac.out = [err |-> "", ok |-> TRUE]

\* C16: List calls fn once per entry of the reply, in the reply's order, and
\* at the first entry for which fn returns an error it stops and returns
\* that error: the calls of fn are at every moment the first entries of the
\* reply, none but the last has returned an error, and List returns after
\* the last entry with nil or after a failed call with its error.
C16_ListFnOncePerEntryInOrder ==
    fac.method = "List" =>
       LET n == Len(fac.fns)
           es == IF fac.cmds = <<>> THEN <<>> ELSE fac.cmds[1].data
       IN  /\ n <= Len(es)
           /\ \A j \in 1..n :
                 /\ fac.fns[j].arg = es[j]
                 /\ j < n => fac.fns[j].err = ""
           /\ (fac.pc = "done" /\ FirstOk) =>
                 \/ n = Len(es) /\ fac.out.err = ""
                       /\ \A j \in 1..n : fac.fns[j].err = ""
                 \/ n >= 1 /\ fac.fns[n].err # ""
                       /\ fac.out.err = fac.fns[n].err

\* List has returned fn's error for the first of several entries.
C16_Witness ==
    /\ fac.method = "List" /\ fac.pc = "done" /\ FirstOk
    /\ Len(fac.cmds[1].data) >= 2
    /\ Len(fac.fns) = 1 /\ fac.fns[1].err = "fn"
    /\ fac.out.err = "fn"

\* C17: one Load calls fn exactly once, on the data of the reply, when the
\* round trip succeeded with ok=true, and never when the round trip failed
\* or the reply has ok=false.
C17_LoadFnOnce ==
    fac.method = "Load" =>
       /\ Len(fac.fns) <= 1
       /\ fac.fns # <<>> => (FirstOk /\ fac.fns[1].arg = fac.cmds[1].data)
       /\ (fac.pc = "done" /\ FirstOk) => Len(fac.fns) = 1

\* Load has called fn on a reply that carries data.
C17_Witness ==
    /\ fac.method = "Load" /\ fac.pc = "done" /\ FirstOk
    /\ fac.cmds[1].data # <<>>
    /\ Len(fac.fns) = 1

\* The command at position j of the method in progress did not succeed.
CmdFailed(j) == fac.cmds[j].err # "" \/ ~fac.cmds[j].ok

\* The commands Delete has to send, given the listings that came back: for
\* each type its List and a Remove of every entry listed, then the Remove
\* of the config file.
RECURSIVE DeleteCommands(_, _)
DeleteCommands(t, listings) ==
    IF t > Len(alltypes)
    THEN <<[op |-> NatsRemoveCmd, arg |-> ConfigHandle]>>
    ELSE <<[op |-> NatsListCmd, arg |-> [type |-> alltypes[t], name |-> 0]]>>
            \o [j \in 1..Len(listings[t]) |->
                   [op |-> NatsRemoveCmd,
                    arg |-> [type |-> alltypes[t], name |-> listings[t][j]]]]
            \o DeleteCommands(t + 1, listings)

\* The listings the responder returned to the List commands sent so far,
\* empty for the types not listed.
Listings ==
    LET lists == SelectSeq(fac.cmds, LAMBDA x : x.op = NatsListCmd)
    IN  [t \in 1..Len(alltypes) |->
            IF t <= Len(lists) THEN lists[t].data ELSE <<>>]

\* C18: Delete sends, for pack, key, lock, snapshot and index in this order,
\* a List and a Remove of every listed entry, and then the Remove of the
\* config file; when a List or Remove of the five types fails it returns
\* nil at once, with no further command and no Remove of the config file.
C18_DeleteOrder ==
    (fac.method = "Delete" /\ fac.pc = "done") =>
       LET n == Len(fac.cmds)
           want == DeleteCommands(1, Listings)
       IN  /\ n >= 1 /\ n <= Len(want)
           /\ \A j \in 1..n : /\ fac.cmds[j].op = want[j].op
                              /\ fac.cmds[j].arg = want[j].arg
           /\ \A j \in 1..(n - 1) : ~CmdFailed(j)
           /\ n < Len(want) => (CmdFailed(n) /\ fac.out.err = "")
           /\ (n = Len(want) /\ ~CmdFailed(n)) => fac.out.err = ""

\* C19: Create sends Open, then Stat of the config file, then Mkdir for the
\* layout's paths in order.  When the config file exists it returns an
\* error of its own and sends no Mkdir; otherwise it stops at the first
\* Mkdir that fails and returns that error without a Backend.
C19_CreateOrder ==
    (fac.method = "Create" /\ fac.pc = "done") =>
       LET n == Len(fac.cmds) IN
       /\ n >= 1 /\ fac.cmds[1].op = NatsOpenCmd
       /\ n >= 2 => /\ fac.cmds[2].op = NatsStatCmd
                    /\ fac.cmds[2].arg = ConfigHandle
       /\ (n >= 2 /\ ~CmdFailed(2)) =>
             /\ n = 2
             /\ fac.out = [err |-> "config file already exists", ok |-> FALSE]
       /\ \A j \in 3..n : /\ fac.cmds[j].op = NatsMkdirCmd
                          /\ fac.cmds[j].arg = Paths[j - 2]
                          /\ j < n => ~CmdFailed(j)
       /\ (n >= 3 /\ CmdFailed(n)) => (fac.out.err # "" /\ ~fac.out.ok)
       /\ (n >= 3 /\ ~CmdFailed(n)) => (n = 2 + NumPaths /\ fac.out.ok)

(* ------------------------- the receiver's reassembly ------------------- *)

\* Endpoint e is in, or has just left, the reassembly of a chunked message:
\* it subscribed, and waits for a chunk, runs its deferred calls, has
\* returned the message, or has returned a reader's error.
Reassembling(e) ==
    /\ ep[e].subs >= 1
    /\ \/ ep[e].pc \in {"readChunk", "unsub", AfterRead(e)}
       \/ ep[e].pc = "failed" /\ ep[e].err \in {"deadline", "ackfail"}

\* The data of the first n messages of log S, joined.
RECURSIVE Joined(_, _)
Joined(S, n) == IF n = 0 THEN <<>> ELSE Joined(S, n - 1) \o S[n].data

\* C20: a receiver that reassembles a message announcing P chunks sends the
\* control reply once and first, then one ack for each chunk i < P it took
\* and none for chunk P; it leaves the wait for chunks only with the P-th
\* chunk, with the deadline error or with the error of a failed ack; the
\* message it returns has the reply-to of chunk P and the data of the
\* initial message and of the P chunks, in order.
C20_ReceiverReassembly ==
    \A e \in Endpoints :
       Reassembling(e) =>
          LET P == ep[e].pages
              R == ep[e].resp
              S == ep[Peer(e)].sent
              returned == ep[e].err = "" /\ ep[e].pc # "readChunk"
          IN  /\ \A j \in 1..Len(R) : (R[j].csubj # 0) <=> (j = 1)
              /\ ep[e].pc = "readChunk" =>
                    /\ ep[e].i \in 1..P
                    /\ Len(R) = ep[e].i \/ (R = <<>> /\ ep[e].i = 1)
              /\ ep[e].err = "deadline" => Len(R) <= P
              /\ ep[e].err = "ackfail" => Len(R) < P
              /\ (returned /\ P >= 1) =>
                    /\ Len(R) = P
                    /\ ep[e].i = P + 1
                    /\ Len(S) >= P + 1
                    /\ ep[e].acc.reply = (S[P + 1].mode = "request")
                    /\ ep[e].acc.data = Joined(S, P + 1)
              /\ (returned /\ P < 1) => Len(R) <= 1

\* A receiver has returned a message reassembled from two chunks, after the
\* control reply and one ack.
C20_Witness ==
    \E e \in Endpoints :
       /\ Reassembling(e) /\ ep[e].pc = AfterRead(e)
       /\ ep[e].pages = 2 /\ Len(ep[e].resp) = 2

(* --------------------------- the chunks' headers ----------------------- *)

\* Endpoint e has sent the initial message of a chunked transfer.
SentChunked(e) == ep[e].sent # <<>> /\ ep[e].sent[1].chunks # NoHdr

\* C21 as the specification states it: every follow-on chunk i carries the
\* message's MSGID, CHUNKS = P as the initial message announced it, and
\* SEQ = i, counted from 1.
C21_ChunkHeadersAnnounceP ==
    \A e \in Endpoints :
       SentChunked(e) =>
          \A j \in 2..Len(ep[e].sent) :
             /\ ep[e].sent[j].id = ep[e].sent[1].id
             /\ ep[e].sent[j].chunks = ep[e].sent[1].chunks
             /\ ep[e].sent[j].seq = j - 1

\* C21, amended: the initial message carries CHUNKS = P; every follow-on
\* chunk i carries the message's MSGID and SEQ = i, counted from 1, and for
\* CHUNKS what the message handed to the sender carried, which is nothing
\* for a message the Backend or the responder built.
C21_ChunkHeadersCopied ==
    \A e \in Endpoints :
       SentChunked(e) =>
          /\ ep[e].sent[1].chunks = Len(ep[e].out.data) \div cfg.maxchunksize
          /\ ep[e].sent[1].id = ep[e].out.id
          /\ \A j \in 2..Len(ep[e].sent) :
                /\ ep[e].sent[j].subj = "chunk"
                /\ ep[e].sent[j].id = ep[e].out.id
                /\ ep[e].sent[j].chunks = ep[e].out.chunks
                /\ ep[e].sent[j].chunks = NoHdr
                /\ ep[e].sent[j].seq = j - 1

\* A sender has sent the second follow-on chunk.
C21_Witness ==
    \E e \in Endpoints :
       /\ SentChunked(e)
       /\ Len(ep[e].sent) = 3 /\ ep[e].sent[3].seq = 2

(* ------------------------------ chunk order ---------------------------- *)

\* C22: within a chunked transfer the chunks are received in SEQ order.  The
\* chunk a receiver appends as its i-th is the head of chunkchan: the
\* chunks waiting in chunkchan carry SEQ = i, i + 1, ... and a chunk of the
\* transfer still on the bus carries the SEQ after them, whatever order the
\* bus delivers in.
C22_ChunksInSeqOrder ==
    \A e \in Endpoints :
       (ep[e].pc = "readChunk" /\ ep[e].sub) =>
          /\ \A k \in 1..Len(ep[e].chan) : ep[e].chan[k].seq = ep[e].i + k - 1
          /\ \A m \in wire :
                (m.to = e /\ m.subj = "chunk")
                   => m.seq = ep[e].i + Len(ep[e].chan)

\* A receiver that has appended chunk 1 has chunk 2 waiting in chunkchan.
C22_Witness ==
    \E e \in Endpoints :
       /\ ep[e].pc = "readChunk" /\ ep[e].i = 2
       /\ ep[e].chan # <<>> /\ ep[e].chan[1].seq = 2

(* ----------------------- subscription and control reply ---------------- *)

\* C23 as the specification states it: the receiver subscribes before it
\* sends the control reply, and no follow-on chunk is sent to a subject
\* without a subscriber: a control reply was sent by a subscriber, and when
\* a sender sends a chunk the subscription of the transfer is there.
C23_ChunksFindSubscriber ==
    /\ [](\A e \in Endpoints : (ep[e].resp # <<>> /\ ep[e].resp[1].csubj # 0) => ep[e].subs >= 1)
    /\ [][\A e \in Endpoints :
             (/\ Len(ep'[e].sent) = Len(ep[e].sent) + 1
              /\ ep'[e].sent[Len(ep'[e].sent)].subj = "chunk")
                => ep[Peer(e)].sub]_vars

\* C23, amended: the receiver subscribes before it sends the control reply,
\* so a control reply was sent by a receiver that had subscribed and the
\* subscription is there as long as the receiver waits for chunks; a chunk
\* on the bus lacks a subscriber only if the receiver has left the
\* reassembly with an error meanwhile.
C23_SubscribedBeforeControl ==
    /\ \A e \in Endpoints :
          /\ (ep[e].resp # <<>> /\ ep[e].resp[1].csubj # 0) => ep[e].subs >= 1
          /\ ep[e].pc = "readChunk" => ep[e].sub
    /\ \A m \in wire :
          m.subj = "chunk" =>
             /\ ep[m.to].subs >= 1
             /\ ep[m.to].sub \/ ep[m.to].err \in {"deadline", "ackfail"}

\* The control reply of a subscribed receiver is on the bus.
C23_Witness ==
    \E e \in Endpoints :
       /\ ep[e].sub /\ ep[e].pc = "readChunk" /\ Len(ep[e].resp) = 1
       /\ \E m \in wire : m.to = Peer(e) /\ m.csubj = 1

(* ----------------------- a control reply without subject --------------- *)

\* C24: when the reply to the initial chunk carries no X-RNS-CHUNK-SUBJECT
\* the sender returns an error and sends no follow-on chunk.
C24_NoChunkSubjectIsAnError ==
    \A e \in Endpoints :
       (SentChunked(e) /\ ep[e].got # <<>> /\ ep[e].got[1].csubj = 0) =>
          /\ ep[e].pc = "failed" /\ ep[e].err = "nochunkid"
          /\ Len(ep[e].sent) = 1
          /\ \A m \in wire : m.to = Peer(e) => m.subj # "chunk"

\* A sender has taken a reply without chunk subject to its initial chunk.
C24_Witness ==
    \E e \in Endpoints :
       /\ SentChunked(e) /\ Len(ep[e].got) = 1 /\ ep[e].got[1].csubj = 0
       /\ ep[e].err = "nochunkid"

(* ------------------------------- no retries ---------------------------- *)

\* C25: transport errors are not retried inside the protocol layer.  A
\* sender sends each message of a transfer at most once; once a send has
\* failed it sends nothing more; and the error is what SendMsgWithReply
\* returns to the caller.
C25_NoRetry ==
    /\ [](\A e \in Endpoints :
             \A j \in 1..Len(ep[e].sent) : \A k \in 1..Len(ep[e].sent) :
                (ep[e].sent[j].subj = ep[e].sent[k].subj
                    /\ ep[e].sent[j].seq = ep[e].sent[k].seq) => j = k)
    /\ [][\A e \in Endpoints :
             (ep[e].pc = "failed" /\ ep[e].err = "transport") =>
                \/ ep'[e].pc = "failed" /\ ep'[e].sent = ep[e].sent
                      /\ \A m \in wire' : m.to = Peer(e) => m \in wire
                \/ ep'[e].sent = <<>> /\ ep'[e].pc \in {"idle", "listen"}]_vars
    /\ [][\A c \in Callers :
             (ep[Cli(c)].pc = "failed" /\ ep[Cli(c)].err = "transport"
                 /\ ep'[Cli(c)].pc = "idle") => ret'[c].err = "transport"]_vars

\* The request for chunk 1 of several has failed: the sender has sent the
\* initial message and chunk 1, and nothing else.
C25_Witness ==
    \E e \in Endpoints :
       /\ ep[e].pc = "failed" /\ ep[e].err = "transport"
       /\ ep[e].pages >= 2 /\ Len(ep[e].sent) = 2

(* ----------------------------- CHUNKS = "0" ---------------------------- *)

\* Endpoint e is in, or has just left, ChunkReadRequestMsgWithContext on the
\* message ep[e].acc.
Reading(e) ==
    /\ ep[e].pc \in {"readChunk", "unsub", AfterRead(e)}
    /\ HasMsgId(ep[e].acc)

\* C26: a message whose X-RNS-CHUNKS is absent or zero is single-shot for
\* the reader: it is returned unchanged, no subscription is made and no
\* control reply is sent; a subscription is made only for a header that
\* announces more than zero chunks.
C26_ZeroOrAbsentIsSingleShot ==
    \A e \in Endpoints :
       Reading(e) =>
          /\ ep[e].acc.chunks \in {NoHdr, 0} =>
                /\ ep[e].pc = AfterRead(e)
                /\ ep[e].subs = 0 /\ ~ep[e].sub
                /\ ep[e].resp = <<>>
          /\ ep[e].subs >= 1 => ep[e].acc.chunks > 0

(* ------------------------- closing the chunk channel ------------------- *)

\* C27: on every exit of the reassembly the chunk channel is not closed
\* while the subscription that feeds it exists, and the bus never delivers
\* a chunk to the channel after it was closed.
C27_NoDeliveryAfterClose ==
    \A e \in Endpoints :
       /\ ~(ep[e].closed /\ ep[e].sub)
       /\ ~ep[e].panic

(* ----------------------------- command tags ---------------------------- *)

\* The operation names of the seven commands.
OperationNames == {OperationName(op) : op \in NatsCommands}

\* C28: SendMsgWithReply puts a message on the bus only for one of the seven
\* command tags, on the subject repo.commands.<op> with X-RNS-OP = <op>; a
\* call with a tag outside the seven has put no message on the bus, and no
\* command message carries an empty operation name.
C28_OnlySevenCommandsSent ==
    \A c \in Callers :
       /\ \A j \in 1..Len(ep[Cli(c)].sent) :
             ep[Cli(c)].sent[j].subj = "cmd" =>
                ep[Cli(c)].sent[j].op \in OperationNames
       /\ \A m \in wire :
             (m.to = Wrk(c) /\ m.subj = "cmd") => m.op \in OperationNames
       /\ (call[c].facade = "SendMsgWithReply" /\ call[c].op \notin NatsCommands)
             => ep[Cli(c)].sent = <<>>

(* ------------------------------ termination ---------------------------- *)

\* The goroutine in the reader's select takes a case that is ready, and the
\* deferred calls of a function that returns run.
ReaderFair ==
    \A e \in Endpoints :
       /\ WF_vars(ReadChunk(e) \/ ReadCtxDone(e))
       /\ WF_vars(ReadUnsubscribe(e))

\* A transfer in chunks is one caller's: the state after construction with
\* one caller, the only one whose payloads are long enough to be cut.
LiveInit == Init /\ Cardinality(cfg.callers) = 1

LiveSpec == LiveInit /\ [][Next]_vars /\ ReaderFair

\* Every chunk the reader of e still waits for is in chunkchan.
AllDelivered(e) == (ep[e].i - 1) + Len(ep[e].chan) >= ep[e].pages

\* ChunkReadRequestMsgWithContext on e has returned, with the message or
\* with an error.
ReadReturned(e) == ep[e].pc \in {AfterRead(e), "failed"}

\* C29: the reassembly terminates: a reader that has accepted a message
\* announcing P chunks and waits for a chunk returns, with the message or
\* with an error, once all P chunks have been delivered or its context has
\* ended, also when its control reply did not get onto the bus.
C29_ReassemblyTerminates ==
    \A e \in Endpoints :
       (ep[e].pc = "readChunk" /\ (AllDelivered(e) \/ CtxDone(e)))
          ~> ReadReturned(e)

\* A reader whose control reply failed has returned on the end of its
\* context.
C29_Witness ==
    \E e \in Endpoints :
       /\ ep[e].pc = "failed" /\ ep[e].err = "deadline"
       /\ ep[e].pages >= 1 /\ ep[e].resp = <<>>
       /\ ~ep[e].sub


====
